---------------------------- MODULE Spec2Model ----------------------------
(***************************************************************************)
(* Model of src/src/bnf/core/grammar.py: a Language (rule registry), the   *)
(* backtracking match generators of Rule / Syntax / TermGroup / Term,      *)
(* Language.parse, and the transformation engine with its lazy, memoized   *)
(* child view (LazySequenceTransform).                                     *)
(*                                                                         *)
(* Python values are records tagged by "type".  A generator is modelled by *)
(* the finite trace it produces when it is run to its end: the sequence of *)
(* its events in the order they happen, and the exception (if any) that    *)
(* ends it.  An event is a yielded pair or a call of Language.get_rule     *)
(* (recorded so that the moment a rule is looked up is observable).        *)
(* term_group_id and the child indices stay 0-based, as in the source.     *)
(***************************************************************************)
EXTENDS Integers, Sequences, FiniteSets, TLC

VARIABLES
    rules,                  \* Language.rules: rule name -> Rule
    root_rule,              \* Language.root_rule
    add_result,             \* outcome of the last Language.add_rule call
    text,                   \* argument of the last Language.parse call
    matches,                \* what _parse_all produced in the last parse call
    result,                 \* outcome of the last Language.parse call
    parsed_rules,           \* Language.rules as the last parse call found it
    matches_before,         \* <<what _parse_all produced in the parse call before
                            \* the last>> when the two calls had the same text and
                            \* found the same rules, <<>> otherwise
    transformation_rules,   \* LanguageTransformation.transformation_rules
    rule_node,              \* the parse tree handed to transform
    tf_result,              \* outcome of the last LanguageTransformation.transform
    stdout,                 \* what the last transform call printed
    initial_values,         \* LazySequenceTransform.initial_values
    cache,                  \* LazySequenceTransform.cache: int key -> value
    calls,                  \* child position -> number of child.transform calls
    accessed,               \* child positions the accumulator has asked for
    it,                     \* the generator iter(seq) returned last
    earlier,                \* the generators iter(seq) returned before, oldest first
    last                    \* outcome of the last access to the lazy view

vars == <<rules, root_rule, add_result, text, matches, result, parsed_rules,
          matches_before,
          transformation_rules,
          rule_node, tf_result, stdout, initial_values, cache, calls, accessed, it,
          earlier, last>>

langVars == <<rules, root_rule, add_result, text, matches, result, parsed_rules,
              matches_before>>
tfVars == <<transformation_rules, rule_node, tf_result, stdout>>
lazyVars == <<initial_values, cache, calls, accessed, it, earlier, last>>

---------------------------------------------------------------------------
(* Bounds of the model *)

\* longest input text handed to parse
MaxTextLen == 3

\* deepest nesting of rule matches the interpreter stack allows; one more
\* nested Syntax.match raises RecursionError
MaxDepth == 8

---------------------------------------------------------------------------
(* Values *)

None == [type |-> "NoneType"]

NoExc == [type |-> "none", msg |-> ""]

Exc(type, msg) == [type |-> type, msg |-> msg]

Return(value) == [kind |-> "return", value |-> value, exc |-> NoExc]

Raise(exc) == [kind |-> "raise", value |-> None, exc |-> exc]

Idle == [kind |-> "idle", value |-> None, exc |-> NoExc]

\* a generator of LazySequenceTransform.__iter__: suspended before the child
\* at position i, or finished
Generator(state, i) == [type |-> "generator", state |-> state, i |-> i]

\* no generator has been made
NoGenerator == Generator("none", 0)

\* the object a method was called on, as the value of `return self`
Self == [type |-> "self"]

\* trace events of a generator
Yield(leftover, match) == [ev |-> "yield", leftover |-> leftover, match |-> match]

GetRule(rule_name) == [ev |-> "get_rule", rule_name |-> rule_name]

Trace(events, exc) == [events |-> events, exc |-> exc]

\* the yielded pairs of a trace, in order
Yields(trace) == SelectSeq(trace.events, LAMBDA e : e.ev = "yield")

---------------------------------------------------------------------------
(* Grammar model: Term, TermGroup, Syntax, Rule *)

Literal(t) == [type |-> "Literal", text |-> t]

EOFTerm == [type |-> "EOFTerm"]

RuleReference(rule_name) == [type |-> "RuleReference", rule_name |-> rule_name]

\* TermGroup.create(*terms) and Syntax.create(*term_groups) keep the tuple
TermGroup(terms) == [terms |-> terms]

Syntax(term_groups) == [term_groups |-> term_groups]

Rule(name, syntax) == [name |-> name, syntax |-> syntax]

(* Parse tree *)

LiteralNode(value) == [type |-> "LiteralNode", value |-> value]

RuleNode(matched_rule, term_group_id, children) ==
    [type |-> "RuleNode", matched_rule |-> matched_rule,
     term_group_id |-> term_group_id, children |-> children]

\* str.startswith
startswith(s, prefix) ==
    /\ Len(prefix) <= Len(s)
    /\ SubSeq(s, 1, Len(prefix)) = prefix

\* s[n:]
DropPrefix(s, n) == SubSeq(s, n + 1, Len(s))

---------------------------------------------------------------------------
(* Matching *)

\* a Literal.match that builds its node without the matched text
LiteralMatch_emptyNode(self, s) ==
    IF startswith(s, self.text)
    THEN Trace(<<Yield(DropPrefix(s, Len(self.text)), LiteralNode(""))>>, NoExc)
    ELSE Trace(<<>>, NoExc)

\* a Literal.match that hands the text on without the prefix removed
LiteralMatch_noConsume(self, s) ==
    IF startswith(s, self.text)
    THEN Trace(<<Yield(s, LiteralNode(self.text))>>, NoExc)
    ELSE Trace(<<>>, NoExc)

\* Literal.match
LiteralMatch(self, s) ==
    IF startswith(s, self.text)
    THEN Trace(<<Yield(DropPrefix(s, Len(self.text)), LiteralNode(self.text))>>, NoExc)
    ELSE Trace(<<>>, NoExc)

\* EOFTerm.match
EOFTermMatch(self, s) ==
    IF s = ""
    THEN Trace(<<Yield(s, LiteralNode(""))>>, NoExc)
    ELSE Trace(<<>>, NoExc)

\* one entry of a table of match results: what Rule.match of the rule named
\* rule_name produces on the text s
Entry(rule_name, s, trace) == [rule_name |-> rule_name, s |-> s, trace |-> trace]

\* the trace a table holds for (rule_name, s)
Lookup(table, rule_name, s) ==
    (CHOOSE e \in table : e.rule_name = rule_name /\ e.s = s).trace

\* the texts a match started on s can be handed: s with a prefix removed
Suffixes(s) == {SubSeq(s, i, Len(s)) : i \in 1..(Len(s) + 1)}

RECURSIVE TermGroupMatchImpl(_, _, _, _, _)
RECURSIVE MatchImplLoop(_, _, _, _, _, _, _)

\* a RuleReference.match for which an unregistered rule matches nothing
RuleReferenceMatch_skipUnknown(self, s, lang, deeper) ==
    IF self.rule_name \notin DOMAIN lang
    THEN Trace(<<GetRule(self.rule_name)>>, NoExc)
    ELSE LET m == Lookup(deeper, self.rule_name, s)
         IN  Trace(<<GetRule(self.rule_name)>> \o m.events, m.exc)

\* RuleReference.match: Language.get_rule, then Rule.match.  The lookup happens
\* when the term is reached, and a missing key raises KeyError.  `deeper`
\* holds what Rule.match yields one level of nesting further down.
RuleReferenceMatch(self, s, lang, deeper) ==
    IF self.rule_name \notin DOMAIN lang
    THEN Trace(<<GetRule(self.rule_name)>>, Exc("KeyError", self.rule_name))
    ELSE LET m == Lookup(deeper, self.rule_name, s)
         IN  Trace(<<GetRule(self.rule_name)>> \o m.events, m.exc)

\* Term.match, dispatched on the term's class
TermMatch(term, s, lang, deeper) ==
    CASE term.type = "Literal" -> LiteralMatch(term, s)
      [] term.type = "EOFTerm" -> EOFTermMatch(term, s)
      [] term.type = "RuleReference" -> RuleReferenceMatch(term, s, lang, deeper)

\* the inner loop of TermGroup._match_impl: a yield of the rest of the terms
\* becomes a yield with `match` put in front of its children
PrependMatch(match, events) ==
    [k \in 1..Len(events) |->
        IF events[k].ev = "yield"
        THEN Yield(events[k].leftover, <<match>> \o events[k].match)
        ELSE events[k]]

\* the body of the for loop of TermGroup._match_impl for one event of
\* term.match (a lookup made by term.match is passed on as it is)
MatchImplBody(self, term_index, lang, deeper, item) ==
    LET is_last_term == term_index + 1 >= Len(self.terms)
    IN  IF item.ev # "yield"
        THEN Trace(<<item>>, NoExc)
        ELSE IF is_last_term
        THEN Trace(<<Yield(item.leftover, <<item.match>>)>>, NoExc)
        ELSE LET sub == TermGroupMatchImpl(self, item.leftover, term_index + 1,
                                           lang, deeper)
             IN  Trace(PrependMatch(item.match, sub.events), sub.exc)

\* the for loop of TermGroup._match_impl over the events items[lo..hi] of
\* term.match, in order; an exception ends it.  The range is split in halves
\* so that the evaluation stays shallow.
MatchImplLoop(self, term_index, lang, deeper, items, lo, hi) ==
    IF lo > hi
    THEN Trace(<<>>, NoExc)
    ELSE IF lo = hi
    THEN MatchImplBody(self, term_index, lang, deeper, items[lo])
    ELSE LET mid == (lo + hi) \div 2
             left == MatchImplLoop(self, term_index, lang, deeper, items, lo, mid)
         IN  IF left.exc # NoExc
             THEN left
             ELSE LET right == MatchImplLoop(self, term_index, lang, deeper,
                                             items, mid + 1, hi)
                  IN  Trace(left.events \o right.events, right.exc)

\* TermGroup._match_impl; self.terms[term_index] raises IndexError when the
\* group has no terms
TermGroupMatchImpl(self, s, term_index, lang, deeper) ==
    IF term_index >= Len(self.terms)
    THEN Trace(<<>>, Exc("IndexError", "tuple index out of range"))
    ELSE LET term == self.terms[term_index + 1]
             m == TermMatch(term, s, lang, deeper)
             loop == MatchImplLoop(self, term_index, lang, deeper,
                                   m.events, 1, Len(m.events))
         IN  IF loop.exc # NoExc
             THEN loop
             ELSE Trace(loop.events, m.exc)

\* TermGroup.match
TermGroupMatch(self, s, lang, deeper) ==
    TermGroupMatchImpl(self, s, 0, lang, deeper)

\* a Syntax.match loop that numbers the alternatives from 1
WrapRuleNode_fromOne(rule_name, index, events) ==
    [k \in 1..Len(events) |->
        IF events[k].ev = "yield"
        THEN Yield(events[k].leftover,
                   RuleNode(rule_name, index + 1, events[k].match))
        ELSE events[k]]

\* the inner loop of Syntax.match: each (leftover, terms) becomes
\* (leftover, RuleNode(rule_name, index, terms))
WrapRuleNode(rule_name, index, events) ==
    [k \in 1..Len(events) |->
        IF events[k].ev = "yield"
        THEN Yield(events[k].leftover, RuleNode(rule_name, index, events[k].match))
        ELSE events[k]]

RECURSIVE SyntaxMatchFrom(_, _, _, _, _, _)
\* the outer loop of Syntax.match from alternative `index` on
SyntaxMatchFrom(self, s, rule_name, lang, deeper, index) ==
    IF index >= Len(self.term_groups)
    THEN Trace(<<>>, NoExc)
    ELSE LET m == TermGroupMatch(self.term_groups[index + 1], s, lang, deeper)
             here == WrapRuleNode(rule_name, index, m.events)
         IN  IF m.exc # NoExc
             THEN Trace(here, m.exc)
             ELSE LET rest == SyntaxMatchFrom(self, s, rule_name, lang, deeper,
                                              index + 1)
                  IN  Trace(here \o rest.events, rest.exc)

\* a Syntax.match that yields its candidates last first
SyntaxMatch_lastFirst(self, s, rule_name, lang, deeper) ==
    LET m == SyntaxMatchFrom(self, s, rule_name, lang, deeper, 0)
    IN  Trace([k \in 1..Len(m.events) |-> m.events[Len(m.events) + 1 - k]],
              m.exc)

\* Syntax.match
SyntaxMatch(self, s, rule_name, lang, deeper) ==
    SyntaxMatchFrom(self, s, rule_name, lang, deeper, 0)

\* Rule.match
RuleMatch(self, s, lang, deeper) ==
    SyntaxMatch(self.syntax, s, self.name, lang, deeper)

RECURSIVE MatchTable(_, _, _)
\* What Rule.match yields for every rule of lang on every suffix of s when it
\* runs nested `depth` rules deep.  The generators nest one into the other as
\* rules refer to rules; below MaxDepth the interpreter's stack is exhausted
\* and running a generator raises RecursionError.  The deeper levels are
\* settled first: a match depends on them through RuleReference.match only.
MatchTable(lang, s, depth) ==
    IF depth > MaxDepth
    THEN {Entry(n, t, Trace(<<>>, Exc("RecursionError",
                                      "maximum recursion depth exceeded")))
            : n \in DOMAIN lang, t \in Suffixes(s)}
    ELSE LET deeper == MatchTable(lang, s, depth + 1)
         IN  IF deeper = {}
             THEN {}
             ELSE {Entry(n, t, RuleMatch(lang[n], t, lang, deeper))
                     : n \in DOMAIN lang, t \in Suffixes(s)}

---------------------------------------------------------------------------
(* Language *)

\* Language._parse_all: the root rule is looked up at once, its matches are
\* what the returned generator yields
ParseAll(lang, root, s) ==
    RuleReferenceMatch(RuleReference(root), s, lang, MatchTable(lang, s, 1))

\* a parse that takes the first node and does not look for a second
Unpack_first(trace) ==
    LET nodes == Yields(trace)
    IN  IF Len(nodes) >= 1
        THEN Return(nodes[1].match)
        ELSE IF trace.exc # NoExc
        THEN Raise(trace.exc)
        ELSE Raise(Exc("ValueError", "not enough values to unpack (expected 1, got 0)"))

\* `node, = matches`: the unpacking pulls a first node, then looks for a second
Unpack(trace) ==
    LET nodes == Yields(trace)
    IN  IF Len(nodes) >= 2
        THEN Raise(Exc("ValueError", "too many values to unpack (expected 1)"))
        ELSE IF trace.exc # NoExc
        THEN Raise(trace.exc)
        ELSE IF Len(nodes) = 0
        THEN Raise(Exc("ValueError", "not enough values to unpack (expected 1, got 0)"))
        ELSE Return(nodes[1].match)

\* Language.parse
parse(lang, root, s) == Unpack(ParseAll(lang, root, s))

\* the events of `matches` that `node, = matches` makes happen: it stops
\* pulling at the second node
Consumed(trace) ==
    LET events == trace.events
        yieldsUpTo(k) == Cardinality({j \in 1..k : events[j].ev = "yield"})
    IN  IF Len(Yields(trace)) >= 2
        THEN SubSeq(events, 1,
                    CHOOSE k \in 1..Len(events) :
                        events[k].ev = "yield" /\ yieldsUpTo(k) = 2)
        ELSE events

RECURSIVE Str(_)
RECURSIVE StrJoin(_, _)
\* ''.join(str(c) for c in children), from child i (0-based) on
StrJoin(children, i) ==
    IF i >= Len(children)
    THEN ""
    ELSE Str(children[i + 1]) \o StrJoin(children, i + 1)

\* RuleNode.__str__ and LiteralNode.__str__
Str(node) ==
    IF node.type = "LiteralNode"
    THEN node.value
    ELSE StrJoin(node.children, 0)

\* an add_rule that replaces a rule already registered
add_rule_overwrite(lang, rule) ==
    [rules |-> [n \in DOMAIN lang \cup {rule.name} |->
                    IF n = rule.name THEN rule ELSE lang[n]],
     outcome |-> Return(Self)]

\* Language.add_rule: a name already registered raises ValueError and the
\* registry is left as it was; otherwise the rule is registered and the
\* Language itself is returned
add_rule(lang, rule) ==
    IF rule.name \in DOMAIN lang
    THEN [rules |-> lang,
          outcome |-> Raise(Exc("ValueError",
                                "Rule with that name is already in this Language"))]
    ELSE [rules |-> [n \in DOMAIN lang \cup {rule.name} |->
                        IF n = rule.name THEN rule ELSE lang[n]],
          outcome |-> Return(Self)]

---------------------------------------------------------------------------
(* Transformation *)

\* a Python str
StrValue(value) == [type |-> "str", value |-> value]

\* a Python tuple
TupleValue(items) == [type |-> "tuple", items |-> items]

\* what the except clause of SyntaxTransformation.transform prints: the index,
\* the alternatives registered (their number) and str(v) of every child
Printed(index, tf_term_groups, values) ==
    [index |-> index, n_groups |-> Len(tf_term_groups),
     values |-> [k \in 1..Len(values) |-> Str(values[k])]]

\* the result of a transform call: its outcome and what it printed
TfResult(outcome, out) == [outcome |-> outcome, out |-> out]

\* the result of an access to the lazy view: its outcome, the cache after it,
\* the child positions whose transform it called, and what was printed
Step(outcome, cache_, transformed, out) ==
    [outcome |-> outcome, cache |-> cache_, transformed |-> transformed,
     out |-> out]

\* An accumulator is a Python callable; the model has those that make a
\* series of accesses to the view they are handed and return the tuple of
\* what the accesses returned.  The accesses:
\* seq[i]
GetInt(i) == [op |-> "int", i |-> i, start |-> <<>>, stop |-> <<>>]
\* seq[start:stop]; a bound is <<>> for None and <<n>> for the int n
GetSlice(start, stop) == [op |-> "slice", i |-> 0, start |-> start, stop |-> stop]
\* tuple(seq)
GetIter == [op |-> "iter", i |-> 0, start |-> <<>>, stop |-> <<>>]

TermGroupTransformation(accumulator) == [accumulator |-> accumulator]

SyntaxTransformation(tf_term_groups) == [tf_term_groups |-> tf_term_groups]

RuleTransformation(rule_name, tf_syntax) ==
    [rule_name |-> rule_name, tf_syntax |-> tf_syntax]

LazySequenceTransform(initial_values_, lang, cache_) ==
    [initial_values |-> initial_values_, lang |-> lang, cache |-> cache_]

\* LazySequenceTransform.create
LazySequenceTransformCreate(nodes, lang) ==
    LazySequenceTransform(nodes, lang, <<>>)

\* LazySequenceTransform.__len__
LazyLen(lazys) == Len(lazys.initial_values)

\* whether seq[i] is within a Python sequence of n items
InRange(i, n) == -n <= i /\ i < n

\* the 0-based position seq[i] refers to in a Python sequence of n items
Position(i, n) == IF i < 0 THEN i + n ELSE i

\* one bound of range(n)[start:stop], as slice.indices computes it
SliceBound(bound, n, default) ==
    IF bound = <<>>
    THEN default
    ELSE IF bound[1] < 0
    THEN (IF bound[1] + n < 0 THEN 0 ELSE bound[1] + n)
    ELSE (IF bound[1] > n THEN n ELSE bound[1])

\* range(lo, hi) as a sequence
Range(lo, hi) == [k \in 1..(IF hi > lo THEN hi - lo ELSE 0) |-> lo + k - 1]

\* range(n)[start:stop]
SliceIndices(start, stop, n) ==
    Range(SliceBound(start, n, 0), SliceBound(stop, n, n))

\* the dict `cache_` with cache_[i] = value
SetItem(cache_, i, value) ==
    [k \in DOMAIN cache_ \cup {i} |-> IF k = i THEN value ELSE cache_[k]]

RECURSIVE NodeTransform(_, _)
RECURSIVE RuleTransformationTransform(_, _, _)
RECURSIVE SyntaxTransformationTransform(_, _, _, _)
RECURSIVE TermGroupTransformationTransform(_, _, _)
RECURSIVE Accumulate(_, _, _, _, _, _)
RECURSIVE LazyGetItem(_, _)
RECURSIVE LazyGetItemInt(_, _)
RECURSIVE LazyGetItems(_, _, _, _, _, _)

\* _lazy_getitem_int: the cache is looked up under i as it was given, the
\* child under initial_values[i]
LazyGetItemInt(i, lazys) ==
    IF i \in DOMAIN lazys.cache
    THEN Step(Return(lazys.cache[i]), lazys.cache, <<>>, <<>>)
    ELSE IF ~InRange(i, LazyLen(lazys))
    THEN Step(Raise(Exc("IndexError", "tuple index out of range")),
              lazys.cache, <<>>, <<>>)
    ELSE LET pos == Position(i, LazyLen(lazys))
             r == NodeTransform(lazys.initial_values[pos + 1], lazys.lang)
         IN  IF r.outcome.kind = "raise"
             THEN Step(r.outcome, lazys.cache, <<pos>>, r.out)
             ELSE Step(r.outcome, SetItem(lazys.cache, i, r.outcome.value),
                       <<pos>>, r.out)

\* tuple(lazys[i] for i in indices), from indices[k] on: `items` are the
\* values got so far, `transformed` and `out` what has happened so far
LazyGetItems(indices, k, lazys, items, transformed, out) ==
    IF k > Len(indices)
    THEN Step(Return(TupleValue(items)), lazys.cache, transformed, out)
    ELSE LET r == LazyGetItemInt(indices[k], lazys)
         IN  IF r.outcome.kind = "raise"
             THEN Step(r.outcome, r.cache, transformed \o r.transformed,
                       out \o r.out)
             ELSE LazyGetItems(indices, k + 1,
                               LazySequenceTransform(lazys.initial_values,
                                                     lazys.lang, r.cache),
                               Append(items, r.outcome.value),
                               transformed \o r.transformed, out \o r.out)

\* _lazy_getitem_slice
LazyGetItemSlice(s, lazys) ==
    LazyGetItems(SliceIndices(s.start, s.stop, LazyLen(lazys)), 1, lazys,
                 <<>>, <<>>, <<>>)

\* LazySequenceTransform.__iter__, run to its end
LazyIter(lazys) ==
    LazyGetItems(Range(0, LazyLen(lazys)), 1, lazys, <<>>, <<>>, <<>>)

\* LazySequenceTransform.__getitem__ and __iter__, by the kind of access
LazyGetItem(x, lazys) ==
    CASE x.op = "int" -> LazyGetItemInt(x.i, lazys)
      [] x.op = "slice" -> LazyGetItemSlice(x, lazys)
      [] x.op = "iter" -> LazyIter(lazys)

\* the call of an accumulator, from its access k on
Accumulate(accumulator, k, lazys, items, transformed, out) ==
    IF k > Len(accumulator)
    THEN Step(Return(TupleValue(items)), lazys.cache, transformed, out)
    ELSE LET r == LazyGetItem(accumulator[k], lazys)
         IN  IF r.outcome.kind = "raise"
             THEN Step(r.outcome, r.cache, transformed \o r.transformed,
                       out \o r.out)
             ELSE Accumulate(accumulator, k + 1,
                             LazySequenceTransform(lazys.initial_values,
                                                   lazys.lang, r.cache),
                             Append(items, r.outcome.value),
                             transformed \o r.transformed, out \o r.out)

\* TermGroupTransformation.transform
TermGroupTransformationTransform(self, values, lang) ==
    LET r == Accumulate(self.accumulator, 1,
                        LazySequenceTransformCreate(values, lang),
                        <<>>, <<>>, <<>>)
    IN  TfResult(r.outcome, r.out)

\* SyntaxTransformation.transform: an IndexError, of tf_term_groups[index] or
\* raised inside the accumulator, is caught; the method prints and falls off
\* its end, returning None
SyntaxTransformationTransform(self, values, index, lang) ==
    IF ~InRange(index, Len(self.tf_term_groups))
    THEN TfResult(Return(None), <<Printed(index, self.tf_term_groups, values)>>)
    ELSE LET pos == Position(index, Len(self.tf_term_groups))
             r == TermGroupTransformationTransform(self.tf_term_groups[pos + 1],
                                                   values, lang)
         IN  IF r.outcome.kind = "raise" /\ r.outcome.exc.type = "IndexError"
             THEN TfResult(Return(None),
                           r.out \o <<Printed(index, self.tf_term_groups, values)>>)
             ELSE r

\* RuleTransformation.transform
RuleTransformationTransform(self, rule_node_, lang) ==
    SyntaxTransformationTransform(self.tf_syntax, rule_node_.children,
                                  rule_node_.term_group_id, lang)

\* Node.transform: LiteralNode.transform returns the value, RuleNode.transform
\* looks the rule's transformation up (KeyError when there is none)
NodeTransform(node, lang) ==
    IF node.type = "LiteralNode"
    THEN TfResult(Return(StrValue(node.value)), <<>>)
    ELSE IF node.matched_rule \notin DOMAIN lang
    THEN TfResult(Raise(Exc("KeyError", node.matched_rule)), <<>>)
    ELSE RuleTransformationTransform(lang[node.matched_rule], node, lang)

\* LanguageTransformation.transform
transform(lang, rule_node_) == NodeTransform(rule_node_, lang)

\* LanguageTransformation.add_rule_transformation: the last registration for
\* a rule name replaces the earlier one
add_rule_transformation(lang, rt) ==
    [n \in DOMAIN lang \cup {rt.rule_name} |->
        IF n = rt.rule_name THEN rt ELSE lang[n]]

---------------------------------------------------------------------------
(* Inputs *)

Alphabet == {"a", "b"}

RECURSIVE StringsUpTo(_)
\* all texts over Alphabet of length at most n
StringsUpTo(n) ==
    IF n = 0
    THEN {""}
    ELSE LET shorter == StringsUpTo(n - 1)
         IN  shorter \cup {s \o c : s \in shorter, c \in Alphabet}

Texts == StringsUpTo(MaxTextLen)

RuleNames == {"R", "S"}

A == Literal("a")

B == Literal("b")

\* the syntaxes a caller registers; "U" is a name no rule is registered under
Syntaxes == {
    \* a b <eof>
    Syntax(<<TermGroup(<<A, B, EOFTerm>>)>>),
    \* a | a b : not anchored, the candidates differ in their leftover
    Syntax(<<TermGroup(<<A>>), TermGroup(<<A, B>>)>>),
    \* S S | a : a concatenation of two nested rules
    Syntax(<<TermGroup(<<RuleReference("S"), RuleReference("S")>>),
             TermGroup(<<A>>)>>),
    \* a R | <eof> : right recursion
    Syntax(<<TermGroup(<<A, RuleReference("R")>>), TermGroup(<<EOFTerm>>)>>),
    \* R a | a : left recursion
    Syntax(<<TermGroup(<<RuleReference("R"), A>>), TermGroup(<<A>>)>>),
    \* a | "" R : left recursion through an empty literal
    Syntax(<<TermGroup(<<A>>), TermGroup(<<Literal(""), RuleReference("R")>>)>>),
    \* a <eof> | b U : a reference to an unregistered rule
    Syntax(<<TermGroup(<<A, EOFTerm>>), TermGroup(<<B, RuleReference("U")>>)>>),
    \* a | a a | "" : ambiguous prefixes, nullable
    Syntax(<<TermGroup(<<A>>), TermGroup(<<A, A>>), TermGroup(<<Literal("")>>)>>),
    \* b | <no terms> : an alternative without terms
    Syntax(<<TermGroup(<<B>>), TermGroup(<<>>)>>),
    \* no alternative at all
    Syntax(<<>>)
}

\* the syntaxes a caller registers for the rule "S", which the syntaxes above
\* refer to
NestedSyntaxes == {
    \* a | a a | "" : ambiguous prefixes, nullable
    Syntax(<<TermGroup(<<A>>), TermGroup(<<A, A>>), TermGroup(<<Literal("")>>)>>),
    \* a | a b
    Syntax(<<TermGroup(<<A>>), TermGroup(<<A, B>>)>>),
    \* R a | a : left recursion through "R" when "R" begins with S
    Syntax(<<TermGroup(<<RuleReference("R"), A>>), TermGroup(<<A>>)>>),
    \* a <eof> | b U : a reference to an unregistered rule
    Syntax(<<TermGroup(<<A, EOFTerm>>), TermGroup(<<B, RuleReference("U")>>)>>)
}

Rules ==
    {Rule("R", s) : s \in Syntaxes} \cup {Rule("S", s) : s \in NestedSyntaxes}

\* the registries a caller can build from Rules: one rule, or one under each
\* name
Languages ==
    {add_rule(<<>>, r).rules : r \in Rules}
        \cup {add_rule(add_rule(<<>>, r1).rules, r2).rules :
                r1 \in {r \in Rules : r.name = "R"},
                r2 \in {r \in Rules : r.name = "S"}}

\* the trees parse returns for the texts of at most n characters
ParseTrees(n) ==
    {o.value : o \in {x \in {parse(lang, root, s) : lang \in Languages,
                                                     root \in RuleNames,
                                                     s \in StringsUpTo(n)} :
                        x.kind = "return"}}

\* the accumulators a caller registers
\* lambda seq: (tuple(seq),)
AccAll == <<GetIter>>
\* lambda seq: (seq[0],)
AccFirst == <<GetInt(0)>>
\* lambda seq: (seq[-1], seq[1:])
AccLast == <<GetInt(-1), GetSlice(<<1>>, <<>>)>>
\* lambda seq: (seq[3],) : past the children of every node here
AccPast == <<GetInt(3)>>
\* lambda seq: () : consults no child
AccNothing == <<>>

\* the transformations of a syntax a caller registers
SyntaxTransformations == {
    SyntaxTransformation(<<TermGroupTransformation(AccAll)>>),
    SyntaxTransformation(<<TermGroupTransformation(AccAll),
                           TermGroupTransformation(AccFirst)>>),
    SyntaxTransformation(<<TermGroupTransformation(AccLast),
                           TermGroupTransformation(AccNothing),
                           TermGroupTransformation(AccAll)>>),
    SyntaxTransformation(<<TermGroupTransformation(AccPast),
                           TermGroupTransformation(AccAll)>>),
    SyntaxTransformation(<<>>)
}

RuleTransformations ==
    {RuleTransformation(n, st) : n \in RuleNames, st \in SyntaxTransformations}

\* a LanguageTransformation with an accumulator, tuple(seq), for every
\* alternative of every rule
TotalTransformation ==
    LET st == SyntaxTransformation(<<TermGroupTransformation(AccAll),
                                     TermGroupTransformation(AccAll),
                                     TermGroupTransformation(AccAll)>>)
    IN  add_rule_transformation(
            add_rule_transformation(<<>>, RuleTransformation("R", st)),
            RuleTransformation("S", st))

\* the largest index handed to the lazy view; the smallest is -(MaxIndex + 1)
MaxIndex == 3

Indices == (-(MaxIndex + 1))..MaxIndex

\* the bounds of a slice: None or an index
SliceBounds == {<<>>} \cup {<<i>> : i \in Indices}

\* the most generators of one view kept beside the one returned last
MaxEarlier == 2

---------------------------------------------------------------------------
(* The Language session: create, add_rule, parse *)

\* Language.create(root_rule)
Init ==
    /\ rules = <<>>
    /\ root_rule \in RuleNames
    /\ add_result = Idle
    /\ text = ""
    /\ matches = Trace(<<>>, NoExc)
    /\ result = Idle
    /\ parsed_rules = <<>>
    /\ matches_before = <<>>
    /\ transformation_rules = <<>>
    /\ rule_node = None
    /\ tf_result = Idle
    /\ stdout = <<>>
    /\ initial_values = <<>>
    /\ cache = <<>>
    /\ calls = <<>>
    /\ accessed = {}
    /\ it = NoGenerator
    /\ earlier = <<>>
    /\ last = Idle

\* Language._parse_all for every registry that can be built from Rules, every
\* root and every text, worked out once
ParseAllOf ==
    [key \in (Languages \cup {<<>>}) \X RuleNames \X Texts |->
        ParseAll(key[1], key[2], key[3])] @@ <<>>

\* Language.add_rule(rule)
AddRule(rule) ==
    /\ rules' = add_rule(rules, rule).rules
    /\ add_result' = add_rule(rules, rule).outcome
    /\ UNCHANGED <<root_rule, text, matches, result, parsed_rules, matches_before>>
    /\ UNCHANGED <<tfVars, lazyVars>>

\* whether the last parse call was given s and found the rules as they are now
SameAsLastParse(s) == result # Idle /\ text = s /\ parsed_rules = rules

\* a parse that keeps the generator _parse_all made for a text and pulls from
\* it again, spent, when the same text comes again
Parse_spentGenerator(s) ==
    /\ text' = s
    /\ matches' = IF SameAsLastParse(s)
                  THEN Trace(<<>>, NoExc)
                  ELSE ParseAllOf[<<rules, root_rule, s>>]
    /\ result' = Unpack(matches')
    /\ parsed_rules' = rules
    /\ matches_before' = IF SameAsLastParse(s) THEN <<matches>> ELSE <<>>
    /\ UNCHANGED <<rules, root_rule, add_result>>
    /\ UNCHANGED <<tfVars, lazyVars>>

\* Language.parse(s): matches is _parse_all(s), a new generator over the
\* registry as it is now, whatever was parsed before
Parse(s) ==
    /\ text' = s
    /\ matches' = ParseAllOf[<<rules, root_rule, s>>]
    /\ result' = Unpack(matches')
    /\ parsed_rules' = rules
    /\ matches_before' = IF SameAsLastParse(s) THEN <<matches>> ELSE <<>>
    /\ UNCHANGED <<rules, root_rule, add_result>>
    /\ UNCHANGED <<tfVars, lazyVars>>

Next ==
    \/ \E rule \in Rules : AddRule(rule)
    \/ \E s \in Texts : Parse(s)

Spec == Init /\ [][Next]_vars

---------------------------------------------------------------------------
(* The transformation session: create, add_rule_transformation, transform *)

\* LanguageTransformation.create(), and a tree that parse has returned
InitTransform ==
    /\ rules = <<>>
    /\ root_rule \in RuleNames
    /\ add_result = Idle
    /\ text = ""
    /\ matches = Trace(<<>>, NoExc)
    /\ result = Idle
    /\ parsed_rules = <<>>
    /\ matches_before = <<>>
    /\ transformation_rules = <<>>
    /\ rule_node \in ParseTrees(MaxTextLen)
    /\ tf_result = Idle
    /\ stdout = <<>>
    /\ initial_values = <<>>
    /\ cache = <<>>
    /\ calls = <<>>
    /\ accessed = {}
    /\ it = NoGenerator
    /\ earlier = <<>>
    /\ last = Idle

\* LanguageTransformation.add_rule_transformation(rt)
AddRuleTransformation(rt) ==
    /\ transformation_rules' = add_rule_transformation(transformation_rules, rt)
    /\ UNCHANGED <<rule_node, tf_result, stdout>>
    /\ UNCHANGED <<langVars, lazyVars>>

\* LanguageTransformation.transform(rule_node)
Transform ==
    \E r \in {transform(transformation_rules, rule_node)} :
        /\ tf_result' = r.outcome
        /\ stdout' = r.out
        /\ UNCHANGED <<transformation_rules, rule_node>>
        /\ UNCHANGED <<langVars, lazyVars>>

NextTransform ==
    \/ \E rt \in RuleTransformations : AddRuleTransformation(rt)
    \/ Transform

SpecTransform == InitTransform /\ [][NextTransform]_vars

---------------------------------------------------------------------------
(* One accumulator call: the lazy view and the accesses made to it *)

\* LazySequenceTransform.create(values, lang), as TermGroupTransformation
\* .transform hands it to the accumulator: values are the children of a node
\* of a tree that parse has returned
InitLazy ==
    /\ rules = <<>>
    /\ root_rule \in RuleNames
    /\ add_result = Idle
    /\ text = ""
    /\ matches = Trace(<<>>, NoExc)
    /\ result = Idle
    /\ parsed_rules = <<>>
    /\ matches_before = <<>>
    /\ transformation_rules = TotalTransformation
    /\ rule_node \in ParseTrees(MaxTextLen)
    /\ tf_result = Idle
    /\ stdout = <<>>
    /\ initial_values = rule_node.children
    /\ cache = <<>>
    /\ calls = [c \in 0..(Len(rule_node.children) - 1) |-> 0]
    /\ accessed = {}
    /\ it = NoGenerator
    /\ earlier = <<>>
    /\ last = Idle

\* the number of times c occurs in seq
Count(seq, c) == Cardinality({k \in DOMAIN seq : seq[k] = c})

\* the child positions an access asks for
Requested(x, n) ==
    CASE x.op = "int" -> IF InRange(x.i, n) THEN {Position(x.i, n)} ELSE {}
      [] x.op = "slice" ->
            {SliceIndices(x.start, x.stop, n)[k] :
                k \in DOMAIN SliceIndices(x.start, x.stop, n)}
      [] x.op = "iter" -> 0..(n - 1)

\* what the access x to the view returns and does
Accessed(x) ==
    LazyGetItem(x, LazySequenceTransform(initial_values, transformation_rules,
                                         cache))

\* the calls of child.transform, those of the access result r added
Called(r) == [c \in DOMAIN calls |-> calls[c] + Count(r.transformed, c)]

\* seq[i]
GetItemInt(i) ==
    \E r \in {Accessed(GetInt(i))} :
        /\ cache' = r.cache
        /\ calls' = Called(r)
        /\ accessed' = accessed \cup Requested(GetInt(i), Len(initial_values))
        /\ last' = r.outcome
        /\ UNCHANGED <<initial_values, it, earlier>>
        /\ UNCHANGED <<langVars, tfVars>>

\* seq[start:stop]
GetItemSlice(start, stop) ==
    \E r \in {Accessed(GetSlice(start, stop))} :
        /\ cache' = r.cache
        /\ calls' = Called(r)
        /\ accessed' = accessed \cup Requested(GetSlice(start, stop),
                                               Len(initial_values))
        /\ last' = r.outcome
        /\ UNCHANGED <<initial_values, it, earlier>>
        /\ UNCHANGED <<langVars, tfVars>>

\* iter(seq): __iter__ returns a new generator, which has not run yet; the
\* generators returned before stay alive over the same view
Iter ==
    /\ it = NoGenerator \/ Len(earlier) < MaxEarlier
    /\ it' = Generator("suspended", 0)
    /\ earlier' = IF it = NoGenerator THEN earlier ELSE Append(earlier, it)
    /\ last' = Return(it')
    /\ UNCHANGED <<initial_values, cache, calls, accessed>>
    /\ UNCHANGED <<langVars, tfVars>>

\* the generators made so far: 0 is the one returned last, k >= 1 the k-th of
\* the earlier ones
Generators == IF it = NoGenerator THEN {} ELSE 0..Len(earlier)

GeneratorAt(k) == IF k = 0 THEN it ELSE earlier[k]

\* the generator k is left as g, every other generator as it was
Resumed(k, g) ==
    IF k = 0
    THEN it' = g /\ UNCHANGED earlier
    ELSE earlier' = [earlier EXCEPT ![k] = g] /\ UNCHANGED it

\* next(g) for the generator k: it runs to its next yield, self[i] for the
\* next i of range(len(self)); past the last child, and once finished, it
\* raises StopIteration; an exception of self[i] finishes it
NextItem(k) ==
    /\ k \in Generators
    /\ \E g \in {GeneratorAt(k)} :
        IF g.state = "suspended" /\ g.i < Len(initial_values)
        THEN \E r \in {Accessed(GetInt(g.i))} :
                /\ cache' = r.cache
                /\ calls' = Called(r)
                /\ accessed' = accessed \cup {g.i}
                /\ last' = r.outcome
                /\ Resumed(k, IF r.outcome.kind = "raise"
                              THEN Generator("finished", g.i)
                              ELSE Generator("suspended", g.i + 1))
        ELSE /\ last' = Raise(Exc("StopIteration", ""))
             /\ Resumed(k, Generator("finished", g.i))
             /\ UNCHANGED <<cache, calls, accessed>>
    /\ UNCHANGED initial_values
    /\ UNCHANGED <<langVars, tfVars>>

NextLazy ==
    \/ \E i \in Indices : GetItemInt(i)
    \/ \E start \in SliceBounds, stop \in SliceBounds : GetItemSlice(start, stop)
    \/ Iter
    \/ \E k \in 0..MaxEarlier : NextItem(k)

SpecLazy == InitLazy /\ [][NextLazy]_vars

---------------------------------------------------------------------------
(* Properties of Language.parse and of the match generators *)

\* the (leftover, node) pairs the root rule's match yields, in order
Candidates == Yields(matches)

Parsed == result # Idle

\* C1: parse returns a node exactly when the root rule's match sequence runs
\* to its end with exactly one (leftover, node) pair, and then returns that
\* pair's node whatever its leftover; with no pair or with two or more it
\* fails and returns no node.
C1_ParseIffExactlyOneCandidate ==
    Parsed =>
        /\ result.kind = "return" <=>
              (matches.exc = NoExc /\ Len(Candidates) = 1)
        /\ result.kind = "return" => result.value = Candidates[1].match
        /\ (Len(Candidates) >= 2 \/ (matches.exc = NoExc /\ Len(Candidates) = 0))
              => (result.kind = "raise" /\ result.value = None)

\* a parse that succeeded on a single candidate whose leftover is not empty
C1_Witness ==
    /\ result.kind = "return"
    /\ Len(Candidates) = 1
    /\ Candidates[1].leftover # ""

\* the kind (exception class) parse fails with when the root rule yields two
\* candidates
AmbiguousKind ==
    Unpack(Trace(<<Yield("", LiteralNode("")), Yield("", LiteralNode(""))>>,
                 NoExc)).exc.type

\* C2: the failure of parse for want of any candidate and its failure for
\* more than one candidate are distinct error kinds that a caller can tell
\* apart: a parse that failed with no candidate did not fail with the kind
\* of an ambiguous parse.
C2_DistinctErrorKinds ==
    (result.kind = "raise" /\ matches.exc = NoExc /\ Len(Candidates) = 0)
        => result.exc.type # AmbiguousKind

\* C5: for every (leftover, node) pair a rule's match yields on a text, the
\* rendering of the node followed by the leftover is the text.
C5_RoundTrip ==
    \A k \in 1..Len(Candidates) :
        Str(Candidates[k].match) \o Candidates[k].leftover = text

\* a candidate that consumed a proper, non-empty prefix of the text through a
\* nested rule
C5_Witness ==
    \E k \in 1..Len(Candidates) :
        /\ Candidates[k].leftover # ""
        /\ Candidates[k].leftover # text
        /\ \E c \in 1..Len(Candidates[k].match.children) :
              Candidates[k].match.children[c].type = "RuleNode"

RECURSIVE ChildrenFollowTerms(_, _, _, _)
\* node is what a match of the rule named rule_name produces: the index of one
\* of the rule's alternatives and, in order, one node per term of it
NodeFollowsRule(node, rule_name, lang) ==
    /\ node.type = "RuleNode"
    /\ node.matched_rule = rule_name
    /\ rule_name \in DOMAIN lang
    /\ node.term_group_id \in 0..(Len(lang[rule_name].syntax.term_groups) - 1)
    /\ LET terms == lang[rule_name].syntax.term_groups[node.term_group_id + 1].terms
       IN  /\ Len(node.children) = Len(terms)
           /\ ChildrenFollowTerms(node.children, terms, lang, 1)

ChildrenFollowTerms(children, terms, lang, i) ==
    IF i > Len(terms)
    THEN TRUE
    ELSE /\ CASE terms[i].type = "Literal" ->
                    children[i] = LiteralNode(terms[i].text)
              [] terms[i].type = "EOFTerm" ->
                    children[i] = LiteralNode("")
              [] terms[i].type = "RuleReference" ->
                    NodeFollowsRule(children[i], terms[i].rule_name, lang)
         /\ ChildrenFollowTerms(children, terms, lang, i + 1)

\* C6: every RuleNode produced by matching a rule with N alternatives carries
\* the rule's name, a term_group_id in [0, N) and, in order, one child per
\* term of that alternative.
C6_NodeShape ==
    \A k \in 1..Len(Candidates) :
        NodeFollowsRule(Candidates[k].match, root_rule, parsed_rules)

\* a candidate of an alternative other than the first, with a nested RuleNode
\* that is itself of an alternative other than the first
C6_Witness ==
    \E k \in 1..Len(Candidates) :
        /\ Candidates[k].match.term_group_id > 0
        /\ \E c \in 1..Len(Candidates[k].match.children) :
              /\ Candidates[k].match.children[c].type = "RuleNode"
              /\ Candidates[k].match.children[c].term_group_id > 0

\* C7: add_rule with a registered name fails and leaves the registry as it
\* was; a successful add_rule adds the rule under its name and changes no
\* other entry, so every name keeps the first rule registered under it.
C7_AddRuleKeepsFirst ==
    [][\A rule \in Rules : AddRule(rule) =>
          /\ \A n \in DOMAIN rules : n \in DOMAIN rules' /\ rules'[n] = rules[n]
          /\ IF rule.name \in DOMAIN rules
             THEN /\ rules' = rules
                  /\ add_result'.kind = "raise"
                  /\ add_result'.exc.type = "ValueError"
             ELSE /\ DOMAIN rules' = DOMAIN rules \cup {rule.name}
                  /\ rules'[rule.name] = rule
                  /\ add_result'.kind = "return"]_vars

\* a Language of two rules on which an add_rule has just failed
C7_Witness ==
    /\ add_result.kind = "raise"
    /\ Cardinality(DOMAIN rules) = 2

RECURSIVE NodeBefore(_, _)
RECURSIVE ChildrenBefore(_, _, _)
\* the order of enumeration of two nodes yielded for the same rule and text:
\* by alternative first, then by the first child in which they differ
NodeBefore(n1, n2) ==
    /\ n1.type = "RuleNode"
    /\ n2.type = "RuleNode"
    /\ \/ n1.term_group_id < n2.term_group_id
       \/ /\ n1.term_group_id = n2.term_group_id
          /\ ChildrenBefore(n1.children, n2.children, 1)

ChildrenBefore(c1, c2, i) ==
    /\ i <= Len(c1)
    /\ i <= Len(c2)
    /\ IF c1[i] = c2[i]
       THEN ChildrenBefore(c1, c2, i + 1)
       ELSE NodeBefore(c1[i], c2[i])

LookedUp ==
    {Consumed(matches)[k].rule_name :
        k \in {j \in 1..Len(Consumed(matches)) :
                  Consumed(matches)[j].ev = "get_rule"}}

\* C9: a reference to a rule that is not registered is accepted when the
\* grammar is built and fails with KeyError (the unknown-rule error) at match
\* time, exactly when parse comes to look the name up: the failure reaches the
\* caller of parse, and a reference that is never reached causes none.
C9_UnknownRuleFailsWhenTraversed ==
    /\ add_result.kind = "raise" => add_result.exc.type # "KeyError"
    /\ Parsed =>
          /\ (LookedUp \ DOMAIN parsed_rules # {}) <=>
                (result.kind = "raise" /\ result.exc.type = "KeyError")
          /\ result.exc.type = "KeyError" =>
                result.exc.msg \in LookedUp \ DOMAIN parsed_rules

\* the rule names a Language refers to
Referenced(lang) ==
    {lang[n].syntax.term_groups[g].terms[t].rule_name :
        <<n, g, t>> \in
            {x \in (DOMAIN lang) \X (1..3) \X (1..3) :
                /\ x[2] <= Len(lang[x[1]].syntax.term_groups)
                /\ x[3] <= Len(lang[x[1]].syntax.term_groups[x[2]].terms)
                /\ lang[x[1]].syntax.term_groups[x[2]].terms[x[3]].type
                      = "RuleReference"}}

\* a registered root whose second alternative refers to an unregistered rule:
\* parse found a candidate, then reached the reference and failed with KeyError
C9_Witness ==
    /\ root_rule \in DOMAIN parsed_rules
    /\ result.kind = "raise"
    /\ result.exc = Exc("KeyError", "U")
    /\ text # ""

\* a Language that refers to an unregistered rule and still parses, the
\* reference never being reached
C9_WitnessUntraversed ==
    /\ result.kind = "return"
    /\ "U" \in Referenced(parsed_rules)
    /\ LookedUp \subseteq DOMAIN parsed_rules

\* a term that can match without consuming a character, the rules of
\* `nullable` being those that can
MayMatchEmpty(term, nullable) ==
    CASE term.type = "Literal" -> term.text = ""
      [] term.type = "EOFTerm" -> TRUE
      [] term.type = "RuleReference" -> term.rule_name \in nullable

RECURSIVE NullableRules(_, _)
\* the rules that can match without consuming a character, found in k rounds
NullableRules(lang, k) ==
    IF k = 0
    THEN {}
    ELSE LET nullable == NullableRules(lang, k - 1)
         IN  {n \in DOMAIN lang :
                \E g \in 1..Len(lang[n].syntax.term_groups) :
                    \A t \in 1..Len(lang[n].syntax.term_groups[g].terms) :
                        MayMatchEmpty(lang[n].syntax.term_groups[g].terms[t],
                                      nullable)}

\* <<n, m>>: a match of rule n can come to match rule m before any character
\* is consumed
LeftEdges(lang) ==
    LET nullable == NullableRules(lang, Cardinality(DOMAIN lang))
    IN  {e \in (DOMAIN lang) \X Referenced(lang) :
            \E g \in 1..Len(lang[e[1]].syntax.term_groups) :
                LET terms == lang[e[1]].syntax.term_groups[g].terms
                IN  \E t \in 1..Len(terms) :
                        /\ terms[t] = RuleReference(e[2])
                        /\ \A u \in 1..(t - 1) : MayMatchEmpty(terms[u], nullable)}

RECURSIVE Closure(_, _)
\* the paths of at most k + 1 edges
Closure(edges, k) ==
    IF k = 0
    THEN edges
    ELSE LET paths == Closure(edges, k - 1)
         IN  paths \cup {<<p[1], e[2]>> : <<p, e>> \in
                            {x \in paths \X edges : x[1][2] = x[2][1]}}

\* direct or indirect left recursion, also through empty literals
LeftRecursive(lang) ==
    \E n \in DOMAIN lang :
        <<n, n>> \in Closure(LeftEdges(lang), Cardinality(DOMAIN lang))

\* every referenced rule and the root are registered, and every alternative
\* has a term
WellFormed(lang, root) ==
    /\ root \in DOMAIN lang
    /\ Referenced(lang) \subseteq DOMAIN lang
    /\ \A n \in DOMAIN lang :
          \A g \in 1..Len(lang[n].syntax.term_groups) :
              Len(lang[n].syntax.term_groups[g].terms) > 0

\* C10: for a Language whose references are all registered, whose
\* alternatives all have a term and that has no left recursion, the
\* enumeration of the root rule's candidates on a text ends, with finitely
\* many candidates, and parse returns a node or fails for their number: the
\* rules never nest deeper than (number of rules) * (length of the text + 1),
\* so the stack is not exhausted while that is within MaxDepth.
C10_Terminates ==
    (/\ Parsed
     /\ WellFormed(parsed_rules, root_rule)
     /\ ~LeftRecursive(parsed_rules)
     /\ Cardinality(DOMAIN parsed_rules) * (Len(text) + 1) <= MaxDepth)
        => /\ matches.exc = NoExc
           /\ result.kind = "return" \/ result.exc.type = "ValueError"

RECURSIVE NodeDepth(_)
RECURSIVE MaxChildDepth(_, _)
MaxChildDepth(children, i) ==
    IF i > Len(children)
    THEN 0
    ELSE LET d == NodeDepth(children[i])
             rest == MaxChildDepth(children, i + 1)
         IN  IF d > rest THEN d ELSE rest

\* the number of RuleNodes nested on the deepest path of a tree
NodeDepth(node) ==
    IF node.type = "LiteralNode"
    THEN 0
    ELSE 1 + MaxChildDepth(node.children, 1)

\* a recursive grammar without left recursion that parsed a text of three
\* characters into a tree four rules deep
C10_Witness ==
    /\ WellFormed(parsed_rules, root_rule)
    /\ ~LeftRecursive(parsed_rules)
    /\ Cardinality(DOMAIN parsed_rules) * (Len(text) + 1) <= MaxDepth
    /\ Len(text) = 3
    /\ result.kind = "return"
    /\ NodeDepth(result.value) >= 4

\* C3: when transform reaches a RuleNode, the root or a descendant an
\* accumulator asks for, whose term_group_id is no index of the alternatives
\* registered for its rule, the top-level call fails with an IndexError (the
\* alternative-index error): nothing is returned.  The print of the index
\* marks the moment such a node is reached.
C3_BadAlternativeIndexFails ==
    (/\ tf_result # Idle
     /\ \E k \in DOMAIN stdout : ~InRange(stdout[k].index, stdout[k].n_groups))
        => /\ tf_result.kind = "raise"
           /\ tf_result.exc.type = "IndexError"

\* C4: in one accumulator call, whatever accesses have been made to the view
\* (by index, by slice, by iteration), every child that was asked for has
\* been transformed exactly once and every other child not at all.
C4_EachChildTransformedOnce ==
    \A c \in DOMAIN calls : calls[c] = (IF c \in accessed THEN 1 ELSE 0)

===========================================================================
